---------------------------- MODULE Spec2Model ----------------------------
(***************************************************************************)
(* A model of src/ca.py and src/autocomplete: the flashcard parser         *)
(* parse_flashcards_from_text, the math formatter format_math_expressions, *)
(* the delimiter converter convert_latex_delimiters, the hotkey callback   *)
(* with the keyboard automation, the clipboard formatter thread, and       *)
(* find_longest_common_prefix.                                             *)
(*                                                                         *)
(* Texts are sequences of one-character strings, so that every operation   *)
(* (strip, split, splitlines, lower, startswith, the regular expressions)  *)
(* works on characters as the Python code does.                            *)
(***************************************************************************)
EXTENDS Integers, Sequences, FiniteSets

VARIABLES
    text_content,    \* parser: the argument of parse_flashcards_from_text
    parse_pc,        \* parser: "input" before the call, "parsed" after it,
                     \* "idle" where the parser is not called
    parsed_cards,    \* parser: the returned list of {question, answer}
    diagnostics,     \* parser: the DEBUG lines printed, in order
    scans,           \* parser: the locals of each non-blank block's iteration
    text,            \* formatter: the argument of the latest call
    processed_text,  \* formatter: the value the latest call returned
    fmt_pc,          \* formatter: "input", "once" (one call), "twice",
                     \* "idle" where the formatter is not called
    latex_text,      \* converter: the argument of convert_latex_delimiters
    display_converted, \* converter: text after line 124's substitution
    latex_result,    \* converter: the returned text
    conv_pc,         \* converter: "input", "converted", "idle"
    strs,            \* find_longest_common_prefix: the argument
    prefix_result,   \* find_longest_common_prefix: what the call ended with
    prefix_pc,       \* find_longest_common_prefix: "input", "returned", "idle"
    clipboard,       \* the system clipboard pyperclip reads and writes
    clip_writer,     \* who wrote the clipboard last: "user", "formatter",
                     \* "automation"
    processing_cards_flag,  \* line 30
    pc,              \* per activation of the hotkey: its position in
                     \* on_activate_hotkey_callback / automate_anki_card_entry
    cards_to_process,  \* per activation: the parsed list handed to line 273
    card_index,      \* per activation: i of line 204
    steps,           \* per activation: the keyboard steps performed, in order
    exit_path,       \* per activation: how the callback left its try block
    recent_value,    \* formatter thread: line 93, 105, 112
    current_clipboard_content,  \* formatter thread: line 99
    fl_pc            \* formatter thread: its position in the loop, "idle"
                     \* where the thread does not run

parseVars == <<text_content, parse_pc, parsed_cards, diagnostics, scans>>
fmtVars == <<text, processed_text, fmt_pc>>
convVars == <<latex_text, display_converted, latex_result, conv_pc>>
prefixVars == <<strs, prefix_result, prefix_pc>>
clipVars == <<clipboard, clip_writer>>
hotkeyVars == <<processing_cards_flag, pc, cards_to_process, card_index,
                steps, exit_path>>
loopVars == <<recent_value, current_clipboard_content, fl_pc>>

vars == <<parseVars, fmtVars, convVars, prefixVars, clipVars, hotkeyVars,
          loopVars>>

\* what a step of the hotkey callback leaves alone, and what a step of the
\* formatter thread leaves alone
pureVars == <<parseVars, fmtVars, convVars, prefixVars>>

---------------------------------------------------------------------------
(* Characters and the str methods the code uses.                           *)

NL == "\n"
SP == " "

\* str.isspace() / str.strip() / regex \s on one character
IsSpaceChar(c) == c \in {" ", "\n", "\t", "\r"}

\* str.lower() on one character of the alphabet in use
LowerChar(c) ==
    CASE c = "F" -> "f"
      [] c = "R" -> "r"
      [] c = "O" -> "o"
      [] c = "N" -> "n"
      [] c = "T" -> "t"
      [] c = "B" -> "b"
      [] c = "A" -> "a"
      [] c = "C" -> "c"
      [] c = "K" -> "k"
      [] c = "Q" -> "q"
      [] OTHER -> c

Lower(s) == [i \in 1..Len(s) |-> LowerChar(s[i])]

\* str.isspace(): non-empty and every character is whitespace
IsSpace(s) == Len(s) > 0 /\ \A i \in 1..Len(s) : IsSpaceChar(s[i])

RECURSIVE LStrip(_)
LStrip(s) ==
    IF s # <<>> /\ IsSpaceChar(Head(s)) THEN LStrip(Tail(s)) ELSE s

RECURSIVE RStrip(_)
RStrip(s) ==
    IF s # <<>> /\ IsSpaceChar(s[Len(s)])
    THEN RStrip(SubSeq(s, 1, Len(s) - 1))
    ELSE s

\* str.strip()
Strip(s) == RStrip(LStrip(s))

\* str.startswith(prefix)
StartsWith(s, prefix) ==
    Len(s) >= Len(prefix) /\ SubSeq(s, 1, Len(prefix)) = prefix

\* whether pat occurs in s at the 1-based position i
OccursAt(s, pat, i) ==
    i >= 1 /\ i + Len(pat) - 1 <= Len(s) /\ SubSeq(s, i, i + Len(pat) - 1) = pat

\* str.find(pat, from): the least position >= from where pat occurs, 0 if none
RECURSIVE Find(_, _, _)
Find(s, pat, from) ==
    IF from + Len(pat) - 1 > Len(s) THEN 0
    ELSE IF OccursAt(s, pat, from) THEN from
    ELSE Find(s, pat, from + 1)

\* str.split(sep): non-overlapping occurrences, left to right
RECURSIVE Split(_, _)
Split(s, sep) ==
    LET k == Find(s, sep, 1) IN
    IF k = 0 THEN <<s>>
    ELSE <<SubSeq(s, 1, k - 1)>> \o Split(SubSeq(s, k + Len(sep), Len(s)), sep)

\* str.splitlines(): lines without their terminators, no final empty line
RECURSIVE SplitLines(_)
SplitLines(s) ==
    IF s = <<>> THEN <<>>
    ELSE LET k == Find(s, <<NL>>, 1) IN
         IF k = 0 THEN <<s>>
         ELSE <<SubSeq(s, 1, k - 1)>> \o SplitLines(SubSeq(s, k + 1, Len(s)))

\* sep.join(parts)
RECURSIVE Join(_, _)
Join(parts, sep) ==
    IF parts = <<>> THEN <<>>
    ELSE IF Len(parts) = 1 THEN parts[1]
    ELSE parts[1] \o sep \o Join(Tail(parts), sep)

\* seq[lo:hi] with Python's rules for negative and out-of-range indices
PySlice(seq, lo, hi) ==
    LET n == Len(seq)
        norm(k) == IF k < 0 THEN (IF k + n < 0 THEN 0 ELSE k + n)
                   ELSE (IF k > n THEN n ELSE k)
    IN SubSeq(seq, norm(lo) + 1, norm(hi))

\* the concatenation of a sequence of texts
RECURSIVE Flatten(_)
Flatten(parts) ==
    IF parts = <<>> THEN <<>> ELSE Head(parts) \o Flatten(Tail(parts))

---------------------------------------------------------------------------
(* parse_flashcards_from_text (src/ca.py 130-182)                          *)

SEPARATOR == <<"-", "-", "-">>
LABEL_FRONT == <<"f", "r", "o", "n", "t", ":">>
LABEL_FRONT_BOLD == <<"*", "*">> \o LABEL_FRONT
LABEL_BACK == <<"b", "a", "c", "k", ":">>
LABEL_BACK_BOLD == <<"*", "*">> \o LABEL_BACK

\* line 154: clean_line.startswith("front:") or clean_line.startswith("**front:")
IsFrontLabel(clean_line) ==
    StartsWith(clean_line, LABEL_FRONT) \/ StartsWith(clean_line, LABEL_FRONT_BOLD)

\* line 158: clean_line.startswith("back:") or clean_line.startswith("**back:")
IsBackLabel(clean_line) ==
    StartsWith(clean_line, LABEL_BACK) \/ StartsWith(clean_line, LABEL_BACK_BOLD)

\* the scan with line 155's test left out: every front label moves the marker
RECURSIVE ScanLabels_LastFront(_, _, _, _)
ScanLabels_LastFront(lines, j, front_index, back_index) ==
    IF j >= Len(lines)
    THEN [front_index |-> front_index, back_index |-> back_index]
    ELSE LET clean_line == Lower(Strip(lines[j + 1])) IN
         IF IsFrontLabel(clean_line)
         THEN ScanLabels_LastFront(lines, j + 1, j, back_index)
         ELSE IF IsBackLabel(clean_line) /\ back_index = -1 /\ front_index # -1
         THEN [front_index |-> front_index, back_index |-> j]
         ELSE ScanLabels_LastFront(lines, j + 1, front_index, back_index)

\* lines 151-161: the scan for the two label lines, from line j on, with the
\* indices found so far (0-based, -1 for none); the break ends the scan
RECURSIVE ScanLabels(_, _, _, _)
ScanLabels(lines, j, front_index, back_index) ==
    IF j >= Len(lines)
    THEN [front_index |-> front_index, back_index |-> back_index]
    ELSE LET clean_line == Lower(Strip(lines[j + 1])) IN
         IF IsFrontLabel(clean_line)
         THEN ScanLabels(lines, j + 1,
                         IF front_index = -1 THEN j ELSE front_index, back_index)
         ELSE IF IsBackLabel(clean_line) /\ back_index = -1 /\ front_index # -1
         THEN [front_index |-> front_index, back_index |-> j]
         ELSE ScanLabels(lines, j + 1, front_index, back_index)

\* line 164 with the tests of back_index left out
LabelsInOrder_FrontOnly(front_index, back_index) == front_index # -1

\* line 164
LabelsInOrder(front_index, back_index) ==
    front_index # -1 /\ back_index # -1 /\ back_index > front_index

\* lines 165, 168
ExtractQuestion(lines, front_index, back_index) ==
    Strip(Join(PySlice(lines, front_index + 1, back_index), <<NL>>))

\* lines 166, 169
ExtractAnswer(lines, back_index) ==
    Strip(Join(PySlice(lines, back_index + 1, Len(lines)), <<NL>>))

\* line 171 testing the question alone
BothNonEmpty_QuestionOnly(question, answer) == question # <<>>

\* line 171
BothNonEmpty(question, answer) == question # <<>> /\ answer # <<>>

\* line 172 inserting at the front of the list
AppendCard_Prepend(cards, question, answer) ==
    <<[question |-> question, answer |-> answer]>> \o cards

\* line 172: parsed_cards.append({"question": question, "answer": answer})
AppendCard(cards, question, answer) ==
    Append(cards, [question |-> question, answer |-> answer])

\* lines 175, 179 printing enumerate's index as it is
BlockNumber_ZeroBased(i) == i

\* lines 175, 179: the position a diagnostic names, from enumerate's index i
BlockNumber(i) == i + 1

\* lines 141-180: the loop over the blocks from block i on (0-based); acc holds
\* the list built so far, the diagnostics printed so far and, for every
\* non-blank block, the locals of its iteration with the branch it took
RECURSIVE ParseBlocks(_, _, _)
ParseBlocks(potential_card_blocks, i, acc) ==
    IF i >= Len(potential_card_blocks) THEN acc
    ELSE
    LET block == Strip(potential_card_blocks[i + 1]) IN
    IF block = <<>> THEN ParseBlocks(potential_card_blocks, i + 1, acc)
    ELSE
    LET lines == SplitLines(block)
        found == ScanLabels(lines, 0, -1, -1)
        front_index == found.front_index
        back_index == found.back_index
        scan(outcome) ==
            [block |-> i + 1, lines |-> lines, front_index |-> front_index,
             back_index |-> back_index, outcome |-> outcome]
    IN
    IF LabelsInOrder(front_index, back_index)
    THEN
        LET question == ExtractQuestion(lines, front_index, back_index)
            answer == ExtractAnswer(lines, back_index)
        IN
        IF BothNonEmpty(question, answer)
        THEN ParseBlocks(potential_card_blocks, i + 1,
                 [parsed_cards |-> AppendCard(acc.parsed_cards, question, answer),
                  diagnostics |-> acc.diagnostics,
                  scans |-> Append(acc.scans, scan("card"))])
        ELSE ParseBlocks(potential_card_blocks, i + 1,
                 [parsed_cards |-> acc.parsed_cards,
                  diagnostics |-> Append(acc.diagnostics,
                                    [kind |-> "empty_field",
                                     block |-> BlockNumber(i)]),
                  scans |-> Append(acc.scans, scan("empty_field"))])
    ELSE ParseBlocks(potential_card_blocks, i + 1,
             [parsed_cards |-> acc.parsed_cards,
              diagnostics |-> Append(acc.diagnostics,
                                [kind |-> "no_labels", block |-> BlockNumber(i)]),
              scans |-> Append(acc.scans, scan("no_labels"))])

NoCards == [parsed_cards |-> <<>>, diagnostics |-> <<>>, scans |-> <<>>]

\* lines 130-182
parse_flashcards_from_text(t) ==
    IF t = <<>> \/ IsSpace(t) THEN NoCards
    ELSE ParseBlocks(Split(t, SEPARATOR), 0, NoCards)


---------------------------------------------------------------------------
(* format_math_expressions (src/ca.py 33-86)                               *)

DOLLAR == <<"$">>
DOUBLE_DOLLAR == <<"$", "$">>
TAG_OPEN == <<"\\", "t", "a", "g", "{">>
TAG_CLOSE == <<"}">>

\* line 46: f" \\quad \\textbf{{({tag_label})}}"
TagSuffix(tag_label) ==
    <<" ", "\\", "q", "u", "a", "d", " ",
      "\\", "t", "e", "x", "t", "b", "f", "{", "(">> \o tag_label \o <<")", "}">>

\* regex \s*: the least position >= i of a non-whitespace character
RECURSIVE SkipSpace(_, _)
SkipSpace(s, i) ==
    IF i > Len(s) \/ ~IsSpaceChar(s[i]) THEN i ELSE SkipSpace(s, i + 1)

\* regex .* without DOTALL: the position of the line break ending the line
\* of position i, Len(s) + 1 on the last line
RECURSIVE LineEnd(_, _)
LineEnd(s, i) ==
    IF i > Len(s) \/ s[i] = NL THEN i ELSE LineEnd(s, i + 1)

\* line 35, PATTERN_TAG = \\tag\{(.*?)\}, searched from position from on: the
\* label runs to the first "}" and holds no line break
RECURSIVE TagSearch(_, _)
TagSearch(content, from) ==
    LET i == Find(content, TAG_OPEN, from) IN
    IF i = 0 THEN [found |-> FALSE]
    ELSE LET j == Find(content, TAG_CLOSE, i + Len(TAG_OPEN)) IN
         IF j # 0 /\ LineEnd(content, i) > j
         THEN [found |-> TRUE, start |-> i, stop |-> j,
               label |-> SubSeq(content, i + Len(TAG_OPEN), j - 1)]
         ELSE TagSearch(content, i + 1)

\* lines 39-47
process_math_content(content) ==
    LET tag_match == TagSearch(content, 1) IN
    IF tag_match.found
    THEN Strip(SubSeq(content, 1, tag_match.start - 1)
               \o SubSeq(content, tag_match.stop + 1, Len(content)))
         \o TagSuffix(tag_match.label)
    ELSE Strip(content)

\* line 56: re.search(r"\$\$\s*(.*?)\s*\$\$", dollar_block, re.DOTALL)
ContentSearch(dollar_block) ==
    LET a == Find(dollar_block, DOUBLE_DOLLAR, 1)
        t == IF a = 0 THEN 0 ELSE Find(dollar_block, DOUBLE_DOLLAR, a + 2)
    IN IF t = 0 THEN [found |-> FALSE]
       ELSE [found |-> TRUE,
             content |-> RStrip(SubSeq(dollar_block,
                                       SkipSpace(dollar_block, a + 2), t - 1))]

\* line 33, PATTERN_DOUBLE = ^(\s*)(.*?)(\$\$.*?\$\$)(.*)$ with re.MULTILINE,
\* matched at the line start p: the indentation is all the whitespace from p
\* on (line breaks too), the rest lies on one line
DisplayMatchAt(s, p) ==
    LET q == SkipSpace(s, p)
        e == LineEnd(s, q)
        r == Find(s, DOUBLE_DOLLAR, q)
        c == IF r = 0 THEN 0 ELSE Find(s, DOUBLE_DOLLAR, r + 2)
    IN IF r # 0 /\ c # 0 /\ c + 1 < e
       THEN [found |-> TRUE, stop |-> e,
             indent |-> SubSeq(s, p, q - 1),
             pre_text |-> SubSeq(s, q, r - 1),
             dollar_block |-> SubSeq(s, r, c + 1),
             post_text |-> SubSeq(s, c + 2, e - 1)]
       ELSE [found |-> FALSE]

\* lines 51-68
format_display_math_block(match) ==
    LET indent == match.indent
        pre_text == Strip(match.pre_text)
        post_text == Strip(match.post_text)
        content_match == ContentSearch(match.dollar_block)
    IN IF ~content_match.found
       THEN match.indent \o match.pre_text \o match.dollar_block
            \o match.post_text
       ELSE LET processed_content == process_math_content(content_match.content)
            IN Join((IF pre_text # <<>> THEN <<indent \o pre_text>> ELSE <<>>)
                    \o <<indent \o DOUBLE_DOLLAR,
                         indent \o processed_content,
                         indent \o DOUBLE_DOLLAR>>
                    \o (IF post_text # <<>> THEN <<indent \o post_text>>
                        ELSE <<>>),
                    <<NL>>)

\* ^ with re.MULTILINE
IsLineStart(s, p) == p = 1 \/ s[p - 1] = NL

\* the least line start >= pos where PATTERN_DOUBLE matches, 0 if none
RECURSIVE NextDisplayStart(_, _)
NextDisplayStart(s, pos) ==
    IF pos > Len(s) THEN 0
    ELSE IF IsLineStart(s, pos) /\ DisplayMatchAt(s, pos).found THEN pos
    ELSE NextDisplayStart(s, pos + 1)

\* lines 81-83: re.sub(PATTERN_DOUBLE, format_display_math_block, text,
\* flags=re.MULTILINE), from position pos on
RECURSIVE SubDisplay(_, _)
SubDisplay(s, pos) ==
    LET p == NextDisplayStart(s, pos) IN
    IF p = 0 THEN SubSeq(s, pos, Len(s))
    ELSE LET match == DisplayMatchAt(s, p) IN
         SubSeq(s, pos, p - 1) \o format_display_math_block(match)
             \o SubDisplay(s, match.stop)

\* lines 71-73
format_inline_math(content) == DOLLAR \o process_math_content(content) \o DOLLAR

\* line 84: re.sub(PATTERN_SINGLE, format_inline_math, processed_text) with
\* PATTERN_SINGLE = \$([^$]*)\$, from position pos on
RECURSIVE SubInline(_, _)
SubInline(s, pos) ==
    LET i == Find(s, DOLLAR, pos)
        j == IF i = 0 THEN 0 ELSE Find(s, DOLLAR, i + 1)
    IN IF j = 0 THEN SubSeq(s, pos, Len(s))
       ELSE SubSeq(s, pos, i - 1) \o format_inline_math(SubSeq(s, i + 1, j - 1))
                \o SubInline(s, j + 1)

\* the number of line breaks in a row from position i on
RECURSIVE RunOfNewlines(_, _)
RunOfNewlines(s, i) ==
    IF i > Len(s) \/ s[i] # NL THEN 0 ELSE 1 + RunOfNewlines(s, i + 1)

\* line 85 with the pattern \n{4,}
RECURSIVE CollapseNewlines_FourOrMore(_, _)
CollapseNewlines_FourOrMore(s, i) ==
    IF i > Len(s) THEN <<>>
    ELSE LET n == RunOfNewlines(s, i) IN
         IF n >= 4 THEN <<NL, NL>> \o CollapseNewlines_FourOrMore(s, i + n)
         ELSE IF n >= 1
         THEN SubSeq(s, i, i + n - 1) \o CollapseNewlines_FourOrMore(s, i + n)
         ELSE <<s[i]>> \o CollapseNewlines_FourOrMore(s, i + 1)

\* line 85: re.sub(r"\n{3,}", "\n\n", processed_text), from position i on
RECURSIVE CollapseNewlines(_, _)
CollapseNewlines(s, i) ==
    IF i > Len(s) THEN <<>>
    ELSE LET n == RunOfNewlines(s, i) IN
         IF n >= 3 THEN <<NL, NL>> \o CollapseNewlines(s, i + n)
         ELSE IF n >= 1 THEN SubSeq(s, i, i + n - 1) \o CollapseNewlines(s, i + n)
         ELSE <<s[i]>> \o CollapseNewlines(s, i + 1)

\* lines 77-86 without the final strip() of line 86
format_math_expressions_NoStrip(t) ==
    CollapseNewlines(SubInline(SubDisplay(t, 1), 1), 1)

\* lines 77-86
format_math_expressions(t) ==
    Strip(CollapseNewlines(SubInline(SubDisplay(t, 1), 1), 1))

---------------------------------------------------------------------------
(* convert_latex_delimiters (src/ca.py 122-126)                            *)

BRACKET_OPEN == <<"\\", "[">>
BRACKET_CLOSE == <<"\\", "]">>
PAREN_OPEN == <<"\\", "(", " ">>
PAREN_CLOSE == <<" ", "\\", ")">>

\* the greatest position where pat occurs in s, 0 if none
RECURSIVE FindLast(_, _, _)
FindLast(s, pat, from) ==
    IF from < 1 THEN 0
    ELSE IF OccursAt(s, pat, from) THEN from
    ELSE FindLast(s, pat, from - 1)

\* line 124 with the greedy pattern \$\$(.*)\$\$: the content runs to the
\* last "$$" of the text
DisplayClose_Greedy(s, a) ==
    LET c == FindLast(s, DOUBLE_DOLLAR, Len(s) - 1) IN
    IF c >= a + 2 THEN c ELSE 0

\* line 124, the lazy (.*?) with re.DOTALL: the content of a match opened at
\* position a runs to the first "$$" after the opening one, line breaks
\* included; 0 if there is none
DisplayClose(s, a) == Find(s, DOUBLE_DOLLAR, a + 2)

\* line 124: re.sub(r"\$\$(.*?)\$\$", r"\[\1\]", text, flags=re.DOTALL), from
\* position pos on
RECURSIVE SubDisplayDelimiters(_, _)
SubDisplayDelimiters(s, pos) ==
    LET a == Find(s, DOUBLE_DOLLAR, pos)
        c == IF a = 0 THEN 0 ELSE DisplayClose(s, a)
    IN IF c = 0 THEN SubSeq(s, pos, Len(s))
       ELSE SubSeq(s, pos, a - 1)
                \o BRACKET_OPEN \o SubSeq(s, a + 2, c - 1) \o BRACKET_CLOSE
                \o SubDisplayDelimiters(s, c + 2)

\* line 125, \$(.*?)\$ without re.DOTALL, searched from position pos on: the
\* first "$" whose next "$" stands on the same line
RECURSIVE InlineSearch(_, _)
InlineSearch(s, pos) ==
    LET i == Find(s, DOLLAR, pos)
        j == IF i = 0 THEN 0 ELSE Find(s, DOLLAR, i + 1)
    IN IF j = 0 THEN [found |-> FALSE]
       ELSE IF LineEnd(s, i + 1) > j THEN [found |-> TRUE, start |-> i, stop |-> j]
       ELSE InlineSearch(s, j)

\* line 125: re.sub(r"\$(.*?)\$", r"\( \1 \)", text), from position pos on
RECURSIVE SubInlineDelimiters(_, _)
SubInlineDelimiters(s, pos) ==
    LET m == InlineSearch(s, pos) IN
    IF ~m.found THEN SubSeq(s, pos, Len(s))
    ELSE SubSeq(s, pos, m.start - 1)
             \o PAREN_OPEN \o SubSeq(s, m.start + 1, m.stop - 1) \o PAREN_CLOSE
             \o SubInlineDelimiters(s, m.stop + 1)

\* lines 122-126
convert_latex_delimiters(t) ==
    SubInlineDelimiters(SubDisplayDelimiters(t, 1), 1)

---------------------------------------------------------------------------
(* on_activate_hotkey_callback (src/ca.py 240-279) and                     *)
(* automate_anki_card_entry (src/ca.py 186-236).  An activation is one     *)
(* call of the callback; its steps are cut at the reads and writes of what *)
(* the threads share: the flag, the clipboard and the keyboard.            *)

\* the positions of an activation inside automate_anki_card_entry
AutomationPcs ==
    {"copy_question", "paste_question", "tab", "copy_answer", "paste_answer",
     "save"}

\* the positions of an activation between line 246 and the finally block
HoldingPcs == {"read_clipboard", "auto_start", "finally"} \cup AutomationPcs

\* one entry of the list of keyboard steps an activation performed
StepEntry(step, card, t) == [step |-> step, card |-> card, text |-> t]

\* lines 210 and 220 storing the converted text into the record
CardsAfterTranscode_InPlace(cards, i, field, converted) ==
    [cards EXCEPT ![i + 1][field] = converted]

\* lines 210 and 220: the converted text is bound to a local name, the record
\* card_data stays as it is
CardsAfterTranscode(cards, i, field, converted) == cards

\* line 232 replaced by continue: the loop goes on with the next record
AfterFailure_Continue(i, n) ==
    IF i + 1 < n THEN [pc |-> "copy_question", card_index |-> i + 1]
    ELSE [pc |-> "finally", card_index |-> i]

\* lines 228-232: a failed step ends automate_anki_card_entry; the callback
\* goes on to its finally block
AfterFailure(i, n) == [pc |-> "finally", card_index |-> i]

\* the finally block leaving the flag as it is
FlagAfterFinally_Kept(flag) == flag

\* line 278
FlagAfterFinally(flag) == FALSE

\* the listener delivers a press of the hotkey: the call of line 240
Activate(a) ==
    /\ pc[a] = "idle"
    /\ UNCHANGED <<pureVars, loopVars>>
    /\ pc' = [pc EXCEPT ![a] = "check"]
    /\ UNCHANGED <<processing_cards_flag, cards_to_process, card_index, steps,
                   exit_path, clipVars>>

\* lines 242-244: the test of the flag, and the return when it is set
CheckFlag(a) ==
    /\ pc[a] = "check"
    /\ UNCHANGED <<pureVars, loopVars>>
    /\ pc' = [pc EXCEPT ![a] = IF processing_cards_flag THEN "rejected"
                                ELSE "set_flag"]
    /\ UNCHANGED <<processing_cards_flag, cards_to_process, card_index, steps,
                   exit_path, clipVars>>

\* line 246
SetFlag(a) ==
    /\ pc[a] = "set_flag"
    /\ UNCHANGED <<pureVars, loopVars>>
    /\ processing_cards_flag' = TRUE
    /\ pc' = [pc EXCEPT ![a] = "read_clipboard"]
    /\ UNCHANGED <<cards_to_process, card_index, steps, exit_path, clipVars>>

\* lines 250-273: the clipboard is read and parsed; an empty clipboard and a
\* text without valid cards end the try block, otherwise the countdown passes
\* and automate_anki_card_entry is called
ReadClipboard(a) ==
    /\ pc[a] = "read_clipboard"
    /\ UNCHANGED <<pureVars, loopVars>>
    /\ LET card_data_string == clipboard IN
       IF card_data_string = <<>> \/ IsSpace(card_data_string)
       THEN /\ exit_path' = [exit_path EXCEPT ![a] = "empty"]
            /\ pc' = [pc EXCEPT ![a] = "finally"]
            /\ UNCHANGED cards_to_process
       ELSE LET cards == parse_flashcards_from_text(card_data_string).parsed_cards
            IN IF cards = <<>>
               THEN /\ exit_path' = [exit_path EXCEPT ![a] = "no_cards"]
                    /\ pc' = [pc EXCEPT ![a] = "finally"]
                    /\ UNCHANGED cards_to_process
               ELSE /\ cards_to_process' = [cards_to_process EXCEPT ![a] = cards]
                    /\ pc' = [pc EXCEPT ![a] = "auto_start"]
                    /\ UNCHANGED exit_path
    /\ UNCHANGED <<processing_cards_flag, card_index, steps, clipVars>>

\* lines 250, 275-276: pyperclip.paste() raises
ReadFails(a) ==
    /\ pc[a] = "read_clipboard"
    /\ UNCHANGED <<pureVars, loopVars>>
    /\ exit_path' = [exit_path EXCEPT ![a] = "exception"]
    /\ pc' = [pc EXCEPT ![a] = "finally"]
    /\ UNCHANGED <<processing_cards_flag, cards_to_process, card_index, steps,
                   clipVars>>

\* lines 188-193, 204: the entry of automate_anki_card_entry
AutoStart(a) ==
    /\ pc[a] = "auto_start"
    /\ UNCHANGED <<pureVars, loopVars>>
    /\ IF cards_to_process[a] = <<>>
       THEN /\ exit_path' = [exit_path EXCEPT ![a] = "skipped"]
            /\ pc' = [pc EXCEPT ![a] = "finally"]
       ELSE /\ pc' = [pc EXCEPT ![a] = "copy_question"]
            /\ UNCHANGED exit_path
    /\ card_index' = [card_index EXCEPT ![a] = 0]
    /\ UNCHANGED <<processing_cards_flag, cards_to_process, steps, clipVars>>

\* lines 210-211, 197 (field "question") and 220-221, 197 (field "answer"):
\* the field is converted and robust_paste copies it to the clipboard
CopyField(a, at, field, next) ==
    /\ pc[a] = at
    /\ UNCHANGED <<pureVars, loopVars>>
    /\ LET i == card_index[a]
           converted == convert_latex_delimiters(cards_to_process[a][i + 1][field])
       IN /\ clipboard' = converted
          /\ clip_writer' = "automation"
          /\ cards_to_process' =
                 [cards_to_process EXCEPT
                     ![a] = CardsAfterTranscode(@, i, field, converted)]
    /\ pc' = [pc EXCEPT ![a] = next]
    /\ UNCHANGED <<processing_cards_flag, card_index, steps, exit_path>>

\* lines 199-201: robust_paste presses the paste key; what the window
\* receives is the text on the clipboard at this moment
PasteField(a, at, next) ==
    /\ pc[a] = at
    /\ UNCHANGED <<pureVars, loopVars>>
    /\ steps' = [steps EXCEPT
                    ![a] = Append(@, StepEntry(at, card_index[a], clipboard))]
    /\ pc' = [pc EXCEPT ![a] = next]
    /\ UNCHANGED <<processing_cards_flag, cards_to_process, card_index,
                   exit_path, clipVars>>

CopyQuestion(a) == CopyField(a, "copy_question", "question", "paste_question")

PasteQuestion(a) == PasteField(a, "paste_question", "tab")

\* line 215
PressTab(a) ==
    /\ pc[a] = "tab"
    /\ UNCHANGED <<pureVars, loopVars>>
    /\ steps' = [steps EXCEPT
                    ![a] = Append(@, StepEntry("tab", card_index[a], <<>>))]
    /\ pc' = [pc EXCEPT ![a] = "copy_answer"]
    /\ UNCHANGED <<processing_cards_flag, cards_to_process, card_index,
                   exit_path, clipVars>>

CopyAnswer(a) == CopyField(a, "copy_answer", "answer", "paste_answer")

PasteAnswer(a) == PasteField(a, "paste_answer", "save")

\* lines 225-226, 234, 204, 236: the card is saved; the loop goes on with the
\* next record or, after the last one, the function returns
SaveCard(a) ==
    /\ pc[a] = "save"
    /\ UNCHANGED <<pureVars, loopVars>>
    /\ steps' = [steps EXCEPT
                    ![a] = Append(@, StepEntry("save", card_index[a], <<>>))]
    /\ IF card_index[a] + 1 < Len(cards_to_process[a])
       THEN /\ card_index' = [card_index EXCEPT ![a] = @ + 1]
            /\ pc' = [pc EXCEPT ![a] = "copy_question"]
            /\ UNCHANGED exit_path
       ELSE /\ exit_path' = [exit_path EXCEPT ![a] = "finished"]
            /\ pc' = [pc EXCEPT ![a] = "finally"]
            /\ UNCHANGED card_index
    /\ UNCHANGED <<processing_cards_flag, cards_to_process, clipVars>>

\* lines 228-232: a pyperclip or pyautogui call of the current step raises
StepFails(a) ==
    /\ pc[a] \in AutomationPcs
    /\ UNCHANGED <<pureVars, loopVars>>
    /\ steps' = [steps EXCEPT
                    ![a] = Append(@, StepEntry("failed", card_index[a], <<>>))]
    /\ LET after == AfterFailure(card_index[a], Len(cards_to_process[a])) IN
        /\ pc' = [pc EXCEPT ![a] = after.pc]
        /\ card_index' = [card_index EXCEPT ![a] = after.card_index]
    /\ exit_path' = [exit_path EXCEPT ![a] = "aborted"]
    /\ UNCHANGED <<processing_cards_flag, cards_to_process, clipVars>>

\* lines 277-279
Finally(a) ==
    /\ pc[a] = "finally"
    /\ UNCHANGED <<pureVars, loopVars>>
    /\ processing_cards_flag' = FlagAfterFinally(processing_cards_flag)
    /\ pc' = [pc EXCEPT ![a] = "done"]
    /\ UNCHANGED <<cards_to_process, card_index, steps, exit_path, clipVars>>

\* a step of activation a inside the callback (ReadFails stands before
\* ReadClipboard: both are enabled in the same states)
Run(a) ==
    \/ CheckFlag(a)
    \/ SetFlag(a)
    \/ ReadFails(a)
    \/ ReadClipboard(a)
    \/ AutoStart(a)
    \/ CopyQuestion(a)
    \/ PasteQuestion(a)
    \/ PressTab(a)
    \/ CopyAnswer(a)
    \/ PasteAnswer(a)
    \/ SaveCard(a)
    \/ StepFails(a)
    \/ Finally(a)

---------------------------------------------------------------------------
(* clipboard_formatter_loop (src/ca.py 90-118), the thread main starts at  *)
(* lines 289-290.                                                          *)

\* lines 106-108: re.search(PATTERN_SINGLE, ...) or re.search(PATTERN_DOUBLE,
\* ..., re.MULTILINE)
HasMathPattern(t) ==
    \/ LET i == Find(t, DOLLAR, 1) IN i # 0 /\ Find(t, DOLLAR, i + 1) # 0
    \/ NextDisplayStart(t, 1) # 0

\* lines 100-104 and 106-110: whether this iteration writes the clipboard
LoopWrites(current, recent) ==
    /\ current # recent
    /\ current # <<>>
    /\ ~IsSpace(current)
    /\ HasMathPattern(current)
    /\ format_math_expressions(current) # current

\* line 112 left out: the observed text stays the last seen value
RecentAfterWrite_Observed(current, formatted_text) == current

\* line 112
RecentAfterWrite(current, formatted_text) == formatted_text

\* lines 91-95: the thread starts and takes the clipboard as last seen value
LoopStart ==
    /\ fl_pc = "start"
    /\ UNCHANGED <<pureVars, hotkeyVars>>
    /\ recent_value' = clipboard
    /\ fl_pc' = "poll"
    /\ UNCHANGED <<current_clipboard_content, clipVars>>

\* lines 93-95: pyperclip.paste() raises at the start
LoopStartFails ==
    /\ fl_pc = "start"
    /\ UNCHANGED <<pureVars, hotkeyVars>>
    /\ recent_value' = <<>>
    /\ fl_pc' = "poll"
    /\ UNCHANGED <<current_clipboard_content, clipVars>>

\* lines 99-110, 114: the clipboard is read; a new non-blank text becomes the
\* last seen value and, with a math pattern and a formatted form that differs,
\* is about to be replaced; otherwise the loop sleeps and polls again
LoopPoll ==
    /\ fl_pc = "poll"
    /\ UNCHANGED <<pureVars, hotkeyVars>>
    /\ current_clipboard_content' = clipboard
    /\ recent_value' =
           IF clipboard # recent_value /\ clipboard # <<>> /\ ~IsSpace(clipboard)
           THEN clipboard ELSE recent_value
    /\ fl_pc' = IF LoopWrites(clipboard, recent_value) THEN "write" ELSE "poll"
    /\ UNCHANGED clipVars

\* lines 111-114: the formatted text is written and becomes the last seen
\* value
LoopWrite ==
    /\ fl_pc = "write"
    /\ UNCHANGED <<pureVars, hotkeyVars>>
    /\ LET formatted_text == format_math_expressions(current_clipboard_content)
       IN /\ clipboard' = formatted_text
          /\ recent_value' =
                 RecentAfterWrite(current_clipboard_content, formatted_text)
    /\ clip_writer' = "formatter"
    /\ fl_pc' = "poll"
    /\ UNCHANGED current_clipboard_content

\* lines 115-116: pyperclip raises inside the loop, which ends
LoopBreaks ==
    /\ fl_pc \in {"poll", "write"}
    /\ UNCHANGED <<pureVars, hotkeyVars>>
    /\ fl_pc' = "stopped"
    /\ UNCHANGED <<recent_value, current_clipboard_content, clipVars>>

---------------------------------------------------------------------------
(* find_longest_common_prefix (src/autocomplete/autocomplete.py 3-14)      *)

\* what a call ends with: a returned text, or the IndexError of line 8
Returned(value) == [raised |-> FALSE, value |-> value]
Raised == [raised |-> TRUE, value |-> <<>>]

\* lines 10-12: some other string ends before position i or differs there
Mismatch(strings, i) ==
    \E j \in 2..Len(strings) :
        i >= Len(strings[j]) \/ strings[j][i + 1] # strings[1][i + 1]

\* lines 7-14: the loop from position i on (0-based); the range of i is the
\* number of strings, and strs[0][i] raises past the end of the first string
RECURSIVE PrefixLoop(_, _)
PrefixLoop(strings, i) ==
    IF i >= Len(strings) THEN Returned(strings[1])
    ELSE IF i >= Len(strings[1]) THEN Raised
    ELSE IF Mismatch(strings, i) THEN Returned(SubSeq(strings[1], 1, i))
    ELSE PrefixLoop(strings, i + 1)

\* lines 3-14
find_longest_common_prefix(strings) ==
    IF strings = <<>> THEN Returned(<<>>) ELSE PrefixLoop(strings, 0)

---------------------------------------------------------------------------
(* The parser's inputs and its specification.                              *)

MaxLines == 5
MaxBlocks == 3

\* the lines a single block is built from: labels in both spellings and mixed
\* case, with leading blanks and trailing text, content lines and a blank line
BlockLines ==
    { <<"F", "r", "o", "n", "t", ":">>,
      <<" ", "*", "*", "F", "R", "O", "N", "T", ":", "x">>,
      <<"*", "*", "b", "a", "c", "k", ":", " ">>,
      <<"Q", "1">>,
      <<" ">> }

\* every text of one block of at most MaxLines lines
SingleBlockTexts ==
    { Join(ls, <<NL>>) :
        ls \in UNION { [1..k -> BlockLines] : k \in 1..MaxLines } }

Block_Q1A1 ==
    <<"F", "r", "o", "n", "t", ":", NL, "Q", "1", NL,
      "B", "a", "c", "k", ":", NL, "A", "1", NL>>
Block_Q2A2 ==
    <<NL, "F", "r", "o", "n", "t", ":", NL, "Q", "2", NL,
      "B", "a", "c", "k", ":", NL, "A", "2">>
Block_BackFirst ==
    <<"B", "a", "c", "k", ":", NL, "A", NL,
      "F", "r", "o", "n", "t", ":", NL, "Q">>
Block_EmptyQuestion ==
    <<"F", "r", "o", "n", "t", ":", NL, "B", "a", "c", "k", ":", NL, "A">>

\* the blocks the texts of several blocks are built from
SampleBlocks ==
    { <<>>, <<NL, SP>>, <<"-">>,
      Block_Q1A1, Block_Q2A2, Block_BackFirst, Block_EmptyQuestion }

\* every text of 2..MaxBlocks sample blocks joined by the separator
MultiBlockTexts ==
    { Join(bs, SEPARATOR) :
        bs \in UNION { [1..k -> SampleBlocks] : k \in 2..MaxBlocks } }

ParseInputs == SingleBlockTexts \cup MultiBlockTexts \cup {<<>>, <<SP, NL>>}

ParseIdle ==
    /\ text_content = <<>>
    /\ parse_pc = "idle"
    /\ parsed_cards = <<>>
    /\ diagnostics = <<>>
    /\ scans = <<>>

FmtIdle ==
    /\ text = <<>>
    /\ processed_text = <<>>
    /\ fmt_pc = "idle"

ConvIdle ==
    /\ latex_text = <<>>
    /\ display_converted = <<>>
    /\ latex_result = <<>>
    /\ conv_pc = "idle"

PrefixIdle ==
    /\ strs = <<>>
    /\ prefix_result = Returned(<<>>)
    /\ prefix_pc = "idle"

MaxActivations == 2

\* the activations of the hotkey that the listener may deliver
Activations == 1..MaxActivations

\* no hotkey was pressed yet: line 30, and no activation has begun
HotkeyIdle ==
    /\ processing_cards_flag = FALSE
    /\ pc = [a \in Activations |-> "idle"]
    /\ cards_to_process = [a \in Activations |-> <<>>]
    /\ card_index = [a \in Activations |-> 0]
    /\ steps = [a \in Activations |-> <<>>]
    /\ exit_path = [a \in Activations |-> "none"]

LoopIdle ==
    /\ recent_value = <<>>
    /\ current_clipboard_content = <<>>
    /\ fl_pc = "idle"

ClipIdle ==
    /\ clipboard = <<>>
    /\ clip_writer = "user"

InitParse ==
    /\ text_content \in ParseInputs
    /\ parse_pc = "input"
    /\ parsed_cards = <<>>
    /\ diagnostics = <<>>
    /\ scans = <<>>
    /\ FmtIdle /\ ConvIdle /\ PrefixIdle /\ ClipIdle /\ HotkeyIdle /\ LoopIdle

\* one call of parse_flashcards_from_text(text_content)
ParseFlashcards ==
    /\ parse_pc = "input"
    /\ LET r == parse_flashcards_from_text(text_content) IN
        /\ parsed_cards' = r.parsed_cards
        /\ diagnostics' = r.diagnostics
        /\ scans' = r.scans
    /\ parse_pc' = "parsed"
    /\ UNCHANGED <<text_content, fmtVars, convVars, prefixVars, clipVars,
                   hotkeyVars, loopVars>>

NextParse == ParseFlashcards

SpecParse == InitParse /\ [][NextParse]_vars

---------------------------------------------------------------------------
(* The formatter's inputs and its specification.                           *)

MaxPieces == 5

TAG_1 == TAG_OPEN \o <<"1">> \o TAG_CLOSE

\* what the formatter's texts are built from
FmtPieces == { DOLLAR, DOUBLE_DOLLAR, <<NL>>, <<SP>>, <<"x">>, TAG_1 }

\* every text of at most MaxPieces pieces
FmtInputs ==
    { Flatten(ps) :
        ps \in UNION { [1..k -> FmtPieces] : k \in 0..MaxPieces } }

InitFormat ==
    /\ text \in FmtInputs
    /\ processed_text = <<>>
    /\ fmt_pc = "input"
    /\ ParseIdle /\ ConvIdle /\ PrefixIdle /\ ClipIdle /\ HotkeyIdle /\ LoopIdle

\* format_math_expressions(text)
FormatOnce ==
    /\ fmt_pc = "input"
    /\ processed_text' = format_math_expressions(text)
    /\ fmt_pc' = "once"
    /\ UNCHANGED <<text, parseVars, convVars, prefixVars, clipVars, hotkeyVars,
                   loopVars>>

\* format_math_expressions applied to the text it returned
FormatAgain ==
    /\ fmt_pc = "once"
    /\ text' = processed_text
    /\ processed_text' = format_math_expressions(processed_text)
    /\ fmt_pc' = "twice"
    /\ UNCHANGED <<parseVars, convVars, prefixVars, clipVars, hotkeyVars,
                   loopVars>>

NextFormat == FormatOnce \/ FormatAgain

SpecFormat == InitFormat /\ [][NextFormat]_vars

---------------------------------------------------------------------------
(* The converter's inputs and its specification.                           *)

MaxConvPieces == 6

\* what the converter's texts are built from
ConvPieces == { DOLLAR, DOUBLE_DOLLAR, <<NL>>, <<"a">> }

\* "$$a$$ and $b$"
Text_DisplayAndInline ==
    <<"$", "$", "a", "$", "$", " ", "a", "n", "d", " ", "$", "b", "$">>

\* every text of at most MaxConvPieces pieces, and the text above
ConvInputs ==
    { Flatten(ps) :
        ps \in UNION { [1..k -> ConvPieces] : k \in 0..MaxConvPieces } }
    \cup { Text_DisplayAndInline }

InitConvert ==
    /\ latex_text \in ConvInputs
    /\ display_converted = <<>>
    /\ latex_result = <<>>
    /\ conv_pc = "input"
    /\ ParseIdle /\ FmtIdle /\ PrefixIdle /\ ClipIdle /\ HotkeyIdle /\ LoopIdle

\* convert_latex_delimiters(latex_text)
ConvertDelimiters ==
    /\ conv_pc = "input"
    /\ display_converted' = SubDisplayDelimiters(latex_text, 1)
    /\ latex_result' = convert_latex_delimiters(latex_text)
    /\ conv_pc' = "converted"
    /\ UNCHANGED <<latex_text, parseVars, fmtVars, prefixVars, clipVars,
                   hotkeyVars, loopVars>>

NextConvert == ConvertDelimiters

SpecConvert == InitConvert /\ [][NextConvert]_vars

---------------------------------------------------------------------------
(* The hotkey callback under several activations: SpecHotkey, and           *)
(* SpecHotkeyFair where every activation that was delivered keeps running. *)

Text_NoCards == <<"x">>

\* what the clipboard holds when the hotkey is pressed first: nothing, blank
\* text, text without a card, one card
HotkeyClipboards == { <<>>, <<SP, NL>>, Text_NoCards, Block_Q1A1 }

InitHotkey ==
    /\ clipboard \in HotkeyClipboards
    /\ clip_writer = "user"
    /\ HotkeyIdle
    /\ LoopIdle /\ ParseIdle /\ FmtIdle /\ ConvIdle /\ PrefixIdle

NextHotkey ==
    \E a \in Activations :
        \/ Activate(a)
        \/ CheckFlag(a)
        \/ SetFlag(a)
        \/ ReadClipboard(a)
        \/ ReadFails(a)
        \/ AutoStart(a)
        \/ CopyQuestion(a)
        \/ PasteQuestion(a)
        \/ PressTab(a)
        \/ CopyAnswer(a)
        \/ PasteAnswer(a)
        \/ SaveCard(a)
        \/ StepFails(a)
        \/ Finally(a)

SpecHotkey == InitHotkey /\ [][NextHotkey]_vars

\* a callback that was entered runs on: its thread is scheduled again and
\* every sleep and every pyperclip or pyautogui call returns or raises
SpecHotkeyFair ==
    InitHotkey /\ [][NextHotkey]_vars /\ \A a \in Activations : WF_vars(Run(a))

---------------------------------------------------------------------------
(* The program as main starts it (lines 289-296): the formatter thread and *)
(* one press of the hotkey, the keyboard automation running beside the     *)
(* formatter thread.                                                       *)

\* "Front:\n$a$\nBack:\n$$a$$"
Block_Math ==
    <<"F", "r", "o", "n", "t", ":", NL, "$", "a", "$", NL,
      "B", "a", "c", "k", ":", NL, "$", "$", "a", "$", "$">>

\* "Front:\n$ x\n$\nBack:\nA": the question is an inline span of two lines
Block_TwoLineInline ==
    <<"F", "r", "o", "n", "t", ":", NL, "$", " ", "x", NL, "$", NL,
      "B", "a", "c", "k", ":", NL, "A">>

\* the card texts the user has copied before pressing the hotkey
CardClipboards ==
    { Block_Q1A1, Block_Q1A1 \o SEPARATOR \o Block_Q2A2, Block_Math,
      Block_TwoLineInline, Block_Math \o SEPARATOR \o Block_Q2A2 }

\* the activation of the one press
FirstActivation == 1

InitAutomation ==
    /\ clipboard \in CardClipboards
    /\ clip_writer = "user"
    /\ HotkeyIdle
    /\ recent_value = <<>>
    /\ current_clipboard_content = <<>>
    /\ fl_pc = "start"
    /\ ParseIdle /\ FmtIdle /\ ConvIdle /\ PrefixIdle

NextAutomation ==
    \/ LoopStart
    \/ LoopStartFails
    \/ LoopPoll
    \/ LoopWrite
    \/ LoopBreaks
    \/ Activate(FirstActivation)
    \/ CheckFlag(FirstActivation)
    \/ SetFlag(FirstActivation)
    \/ ReadClipboard(FirstActivation)
    \/ ReadFails(FirstActivation)
    \/ AutoStart(FirstActivation)
    \/ CopyQuestion(FirstActivation)
    \/ PasteQuestion(FirstActivation)
    \/ PressTab(FirstActivation)
    \/ CopyAnswer(FirstActivation)
    \/ PasteAnswer(FirstActivation)
    \/ SaveCard(FirstActivation)
    \/ StepFails(FirstActivation)
    \/ Finally(FirstActivation)

SpecAutomation == InitAutomation /\ [][NextAutomation]_vars

---------------------------------------------------------------------------
(* The formatter thread and a user who copies texts: SpecClipboard.        *)

\* "$$$\n$", which format_math_expressions turns into "$$$$" and that into
\* "$$\n\n$$"
Text_NotIdempotent == <<"$", "$", "$", NL, "$">>

\* the texts the user copies: none, blank, without math, math already in its
\* formatted form, math that formatting changes once, math that formatting
\* changes twice
ClipTexts ==
    { <<>>, <<SP>>, <<"x">>, <<"$", "a", "$">>, <<"$", " ", "a", "$">>,
      <<"$", "$", "a", "$", "$", NL, NL, NL, "x">>, Text_NotIdempotent }

\* the user copies a text
UserCopy ==
    /\ fl_pc \in {"start", "poll", "write", "stopped"}
    /\ \E t \in ClipTexts :
          /\ t # clipboard
          /\ clipboard' = t
    /\ clip_writer' = "user"
    /\ UNCHANGED <<pureVars, hotkeyVars, loopVars>>

InitClipboard ==
    /\ clipboard \in ClipTexts
    /\ clip_writer = "user"
    /\ recent_value = <<>>
    /\ current_clipboard_content = <<>>
    /\ fl_pc = "start"
    /\ HotkeyIdle /\ ParseIdle /\ FmtIdle /\ ConvIdle /\ PrefixIdle

NextClipboard ==
    \/ LoopStart
    \/ LoopStartFails
    \/ LoopPoll
    \/ LoopWrite
    \/ LoopBreaks
    \/ UserCopy

SpecClipboard == InitClipboard /\ [][NextClipboard]_vars

---------------------------------------------------------------------------
(* The inputs of find_longest_common_prefix and its specification.         *)

MaxStrs == 3
MaxStrLen == 3

\* every string of at most MaxStrLen letters
PrefixStrings == UNION { [1..n -> {"a", "b"}] : n \in 0..MaxStrLen }

\* every list of at most MaxStrs strings
PrefixInputs == UNION { [1..k -> PrefixStrings] : k \in 0..MaxStrs }

InitPrefix ==
    /\ strs \in PrefixInputs
    /\ prefix_result = Returned(<<>>)
    /\ prefix_pc = "input"
    /\ ParseIdle /\ FmtIdle /\ ConvIdle /\ ClipIdle /\ HotkeyIdle /\ LoopIdle

\* find_longest_common_prefix(strs)
FindPrefix ==
    /\ prefix_pc = "input"
    /\ prefix_result' = find_longest_common_prefix(strs)
    /\ prefix_pc' = "returned"
    /\ UNCHANGED <<strs, parseVars, fmtVars, convVars, clipVars, hotkeyVars,
                   loopVars>>

NextPrefix == FindPrefix

SpecPrefix == InitPrefix /\ [][NextPrefix]_vars

---------------------------------------------------------------------------
(* What the parser's claims are stated with: trimming, lines and label     *)
(* lines written as conditions on positions, not as the code's loops.      *)

Blank(c) == c = " " \/ c = NL

\* the least position >= i of a non-blank character of s, Len(s) + 1 if none
RECURSIVE FirstSolid(_, _)
FirstSolid(s, i) ==
    IF i > Len(s) \/ ~Blank(s[i]) THEN i ELSE FirstSolid(s, i + 1)

\* the greatest position <= i of a non-blank character of s, 0 if none
RECURSIVE LastSolid(_, _)
LastSolid(s, i) ==
    IF i < 1 \/ ~Blank(s[i]) THEN i ELSE LastSolid(s, i - 1)

\* s without its leading and trailing blanks
Trimmed(s) == SubSeq(s, FirstSolid(s, 1), LastSolid(s, Len(s)))

\* the lines of s from position start on, the scan being at position i
RECURSIVE LinesFrom(_, _, _)
LinesFrom(s, start, i) ==
    IF i > Len(s) THEN <<SubSeq(s, start, Len(s))>>
    ELSE IF s[i] = NL
    THEN <<SubSeq(s, start, i - 1)>> \o LinesFrom(s, i + 1, i + 1)
    ELSE LinesFrom(s, start, i + 1)

\* the lines of a text that does not end with a line break
LinesOf(s) == IF s = <<>> THEN <<>> ELSE LinesFrom(s, 1, 1)

\* the texts ls[from], ..., ls[to] joined with line breaks
RECURSIVE JoinedLines(_, _, _)
JoinedLines(ls, from, to) ==
    IF from > to THEN <<>>
    ELSE IF from = to THEN ls[from]
    ELSE ls[from] \o <<NL>> \o JoinedLines(ls, from + 1, to)

HasPrefix(s, p) == Len(s) >= Len(p) /\ \A i \in 1..Len(p) : s[i] = p[i]

FrontLine(line) ==
    LET l == Lower(Trimmed(line)) IN
    HasPrefix(l, LABEL_FRONT) \/ HasPrefix(l, LABEL_FRONT_BOLD)

BackLine(line) ==
    LET l == Lower(Trimmed(line)) IN
    HasPrefix(l, LABEL_BACK) \/ HasPrefix(l, LABEL_BACK_BOLD)

\* the 0-based index of the first front-label line, -1 when there is none
FrontMarker(ls) ==
    IF \E j \in 1..Len(ls) : FrontLine(ls[j])
    THEN (CHOOSE j \in 1..Len(ls) :
              FrontLine(ls[j]) /\ \A h \in 1..(j - 1) : ~FrontLine(ls[h])) - 1
    ELSE -1

\* the 0-based index of the first back-label line after the front marker f
BackMarkerAfter(ls, f) ==
    IF f # -1 /\ \E j \in (f + 2)..Len(ls) : BackLine(ls[j])
    THEN (CHOOSE j \in (f + 2)..Len(ls) :
              BackLine(ls[j]) /\ \A h \in (f + 2)..(j - 1) : ~BackLine(ls[h])) - 1
    ELSE -1

BackMarker(ls) == BackMarkerAfter(ls, FrontMarker(ls))

\* the markers of a block's lines, with the lines strictly between them and
\* the lines strictly after the back marker, each joined and trimmed
FieldsOf(ls) ==
    LET f == FrontMarker(ls)
        b == BackMarkerAfter(ls, f)
    IN [front |-> f, back |-> b,
        question |-> Trimmed(JoinedLines(ls, f + 2, b)),
        answer |-> Trimmed(JoinedLines(ls, b + 2, Len(ls)))]

QuestionOf(ls) == FieldsOf(ls).question
AnswerOf(ls) == FieldsOf(ls).answer

\* the records a block stands for: one if it has a front label, a later back
\* label and text after each, none otherwise
RecordsOfBlock(b) ==
    LET fs == FieldsOf(LinesOf(Trimmed(b))) IN
    IF fs.front # -1 /\ fs.back # -1 /\ fs.question # <<>> /\ fs.answer # <<>>
    THEN << [question |-> fs.question, answer |-> fs.answer] >>
    ELSE <<>>

RECURSIVE RecordsOfBlocks(_)
RecordsOfBlocks(bs) ==
    IF bs = <<>> THEN <<>>
    ELSE RecordsOfBlock(Head(bs)) \o RecordsOfBlocks(Tail(bs))

\* the 1-based positions of the non-blank blocks that stand for no record
RECURSIVE RejectedPositions(_, _)
RejectedPositions(bs, k) ==
    IF k > Len(bs) THEN <<>>
    ELSE (IF Trimmed(bs[k]) # <<>> /\ RecordsOfBlock(bs[k]) = <<>>
          THEN <<k>> ELSE <<>>) \o RejectedPositions(bs, k + 1)

Parsed == parse_pc = "parsed"
ScanSet == { scans[k] : k \in 1..Len(scans) }
CardScans == SelectSeq(scans, LAMBDA sc : sc.outcome = "card")

RoundTripText == Block_Q1A1 \o SEPARATOR \o Block_Q2A2
Card_Q1A1 == [question |-> <<"Q", "1">>, answer |-> <<"A", "1">>]
Card_Q2A2 == [question |-> <<"Q", "2">>, answer |-> <<"A", "2">>]

---------------------------------------------------------------------------
(* Claims about parse_flashcards_from_text, checked under SpecParse.       *)

\* C1: every record returned by parse_flashcards_from_text has a question
\* and an answer that are both non-empty after trimming; a block whose
\* extracted question or answer is empty (such as "Front:\nBack:\nA") adds no
\* record at all, never a record with one half missing.
C1_NoPartialRecord ==
    Parsed =>
        /\ \A k \in 1..Len(parsed_cards) :
              /\ Trimmed(parsed_cards[k].question) # <<>>
              /\ Trimmed(parsed_cards[k].answer) # <<>>
        /\ Len(parsed_cards) = Len(CardScans)
        /\ \A sc \in ScanSet :
              LET fs == FieldsOf(sc.lines) IN
              (fs.question = <<>> \/ fs.answer = <<>>) => sc.outcome # "card"
        /\ (text_content = Block_EmptyQuestion => parsed_cards = <<>>)

\* C1's case: a text with a block that is dropped for an empty field next to
\* a block that gives a record.
C1_Witness ==
    /\ Parsed
    /\ Len(parsed_cards) >= 1
    /\ \E sc \in ScanSet :
          /\ sc.outcome = "empty_field"
          /\ QuestionOf(sc.lines) = <<>>
          /\ AnswerOf(sc.lines) # <<>>

\* C2: in each block the front marker is the first line whose trimmed,
\* lower-cased form starts with "front:" or "**front:", the back marker the
\* first line after it that starts with "back:" or "**back:", whatever label
\* lines stand before the front marker or after the chosen markers; the
\* question of a record is the lines strictly between the markers and its
\* answer the lines strictly after the back marker, joined with line breaks
\* and trimmed.
C2_FirstMarkersAndFields ==
    Parsed =>
        /\ \A sc \in ScanSet :
              /\ sc.front_index = FrontMarker(sc.lines)
              /\ sc.back_index = BackMarker(sc.lines)
        /\ Len(parsed_cards) = Len(CardScans)
        /\ \A k \in 1..Len(parsed_cards) :
              LET fs == FieldsOf(CardScans[k].lines) IN
              /\ parsed_cards[k].question = fs.question
              /\ parsed_cards[k].answer = fs.answer

\* C2's case: a block that gives a record although a back-label line stands
\* before its front marker and a label line stands after its back marker.
C2_Witness ==
    /\ Parsed
    /\ \E sc \in ScanSet :
          /\ sc.outcome = "card"
          /\ sc.front_index > 0
          /\ BackLine(sc.lines[1])
          /\ \E j \in (sc.back_index + 1)..(Len(sc.lines) - 1) :
                BackLine(sc.lines[j + 1]) \/ FrontLine(sc.lines[j + 1])

\* C3: the records come in the order of their blocks, at most one per
\* "---"-separated block and exactly one for each block with a front label,
\* a later back label and non-empty text on the lines after each; blank
\* blocks and blank input give nothing; the two blocks Q1/A1 and Q2/A2 give
\* exactly (Q1,A1), (Q2,A2) in that order.
C3_OneRecordPerBlockInOrder ==
    Parsed =>
        LET bs == Split(text_content, SEPARATOR) IN
        /\ parsed_cards = RecordsOfBlocks(bs)
        /\ Len(parsed_cards) <= Len(bs)
        /\ (Trimmed(text_content) = <<>> => parsed_cards = <<>>)
        /\ (text_content = RoundTripText
                => parsed_cards = <<Card_Q1A1, Card_Q2A2>>)

\* C3's case: the two well-formed blocks parsed, with their two records.
C3_Witness ==
    /\ Parsed
    /\ text_content = RoundTripText
    /\ parsed_cards = <<Card_Q1A1, Card_Q2A2>>

\* C4: a block gives a record only if both markers were found and the back
\* marker's index is greater than the front marker's; a block with no
\* back-label line after its first front-label line (such as
\* "Back:\nA\nFront:\nQ") gives no record.
C4_OnlyOrderedLabelsGiveRecords ==
    Parsed =>
        /\ Len(parsed_cards) = Len(CardScans)
        /\ \A sc \in ScanSet :
              sc.outcome = "card" =>
                  /\ sc.front_index # -1
                  /\ sc.back_index # -1
                  /\ sc.back_index > sc.front_index
        /\ \A sc \in ScanSet :
              BackMarker(sc.lines) = -1 => sc.outcome # "card"
        /\ (text_content = Block_BackFirst => parsed_cards = <<>>)

\* C4's case: a block whose only back-label line stands before its front
\* label was scanned and rejected.
C4_Witness ==
    /\ Parsed
    /\ \E sc \in ScanSet :
          /\ sc.outcome = "no_labels"
          /\ sc.front_index > 0
          /\ BackLine(sc.lines[1])
          /\ Len(sc.lines) > sc.front_index + 1

\* C5: malformed text ends the call with a result, not an error: every
\* non-blank block gives a record or, when rejected, exactly one diagnostic,
\* which names the block's 1-based position among all blocks of the split
\* (blank ones counted); no diagnostic is in
\* the returned list; and the records are those each block gives on its own,
\* so a rejected block changes no other block's record.
C5_RejectedBlocksOnlyDiagnosed ==
    Parsed =>
        LET bs == Split(text_content, SEPARATOR) IN
        /\ Len(parsed_cards) + Len(diagnostics) = Len(scans)
        /\ [k \in 1..Len(diagnostics) |-> diagnostics[k].block]
               = RejectedPositions(bs, 1)
        /\ \A k \in 1..Len(parsed_cards) :
              DOMAIN parsed_cards[k] = {"question", "answer"}
        /\ parsed_cards =
              Flatten([k \in 1..Len(bs) |->
                          parse_flashcards_from_text(bs[k]).parsed_cards])

\* C5's case: a rejected block after a blank block and a well-formed one; the
\* diagnostic's number counts the blank block.
C5_Witness ==
    /\ Parsed
    /\ Len(parsed_cards) >= 1
    /\ \E k \in 1..Len(diagnostics) : diagnostics[k].block > Len(scans)

---------------------------------------------------------------------------
(* What the formatter's claims are stated with.                            *)

Formatted == fmt_pc \in {"once", "twice"}

Contains(s, pat) ==
    \E i \in 1..(Len(s) - Len(pat) + 1) : SubSeq(s, i, i + Len(pat) - 1) = pat

Occurrences(s, pat) ==
    Cardinality({ i \in 1..(Len(s) - Len(pat) + 1) :
                    SubSeq(s, i, i + Len(pat) - 1) = pat })

EndsWith(s, suffix) ==
    Len(s) >= Len(suffix)
        /\ SubSeq(s, Len(s) - Len(suffix) + 1, Len(s)) = suffix

NoDollar(s) == \A i \in 1..Len(s) : s[i] # "$"

TripleNewline == <<NL, NL, NL>>

\* s with every line break dropped that follows two line breaks: each run of
\* three or more becomes a run of two
Squeezed(s) ==
    LET kept(i) == ~(i >= 3 /\ s[i] = NL /\ s[i - 1] = NL /\ s[i - 2] = NL)
        F[i \in 0..Len(s)] ==
            IF i = 0 THEN <<>>
            ELSE IF kept(i) THEN Append(F[i - 1], s[i]) ELSE F[i - 1]
    IN F[Len(s)]

\* t is one display span: "$$", a content without "$", "$$"
IsDisplaySpan(t) ==
    /\ Len(t) >= 4
    /\ SubSeq(t, 1, 2) = DOUBLE_DOLLAR
    /\ SubSeq(t, Len(t) - 1, Len(t)) = DOUBLE_DOLLAR
    /\ NoDollar(SubSeq(t, 3, Len(t) - 2))

DisplayContent(t) == SubSeq(t, 3, Len(t) - 2)

\* t is one inline span: "$", a content without "$", "$"
IsInlineSpan(t) ==
    /\ Len(t) >= 2
    /\ t[1] = "$"
    /\ t[Len(t)] = "$"
    /\ NoDollar(SubSeq(t, 2, Len(t) - 1))

InlineContent(t) == SubSeq(t, 2, Len(t) - 1)

\* the label of the first \tag{...} of a content that holds one
FirstLabel(content) ==
    LET i == CHOOSE i \in 1..(Len(content) - 4) :
                 /\ SubSeq(content, i, i + 4) = TAG_OPEN
                 /\ \A h \in 1..(i - 1) : SubSeq(content, h, h + 4) # TAG_OPEN
        j == CHOOSE j \in (i + 5)..Len(content) :
                 /\ content[j] = "}"
                 /\ \A h \in (i + 5)..(j - 1) : content[h] # "}"
    IN SubSeq(content, i + 5, j - 1)

\* " \quad \textbf{(LABEL)}"
BoldLabel(label) ==
    <<" ", "\\", "q", "u", "a", "d", " ", "\\", "t", "e", "x", "t", "b", "f",
      "{", "(">> \o label \o <<")", "}">>

\* the tag relocation a span of content c asks for, the rewritten span
\* ending with the text closing
TagRelocated(c, closing) ==
    Contains(c, TAG_OPEN) =>
        /\ EndsWith(processed_text, BoldLabel(FirstLabel(c)) \o closing)
        /\ (Occurrences(c, TAG_OPEN) = 1 => ~Contains(processed_text, TAG_OPEN))

---------------------------------------------------------------------------
(* Claims about format_math_expressions, checked under SpecFormat.         *)

\* C6: format_math_expressions is idempotent: formatting the text it returned
\* returns that text again, for every text (odd numbers of dollar signs,
\* adjacent display and inline delimiters and several \tag directives
\* included).
C6_Idempotent == fmt_pc = "twice" => processed_text = text

\* C7: for a display span or an inline span whose content holds a
\* \tag{LABEL}, the first such directive is removed and the span's content
\* then ends with " \quad \textbf{(LABEL)}"; with exactly one directive in the
\* span no "\tag{" is left in the output.
C7_TagRelocatedInEverySpan ==
    fmt_pc = "once" =>
        /\ (IsDisplaySpan(text)
               => TagRelocated(DisplayContent(text), <<NL>> \o DOUBLE_DOLLAR))
        /\ (IsInlineSpan(text) => TagRelocated(InlineContent(text), DOLLAR))

\* C7 on the spans the code does rewrite: the inline spans and the display
\* spans whose content lies on one line.
C7_TagRelocatedOnOneLine ==
    fmt_pc = "once" =>
        /\ (IsDisplaySpan(text) /\ ~Contains(DisplayContent(text), <<NL>>)
               => TagRelocated(DisplayContent(text), <<NL>> \o DOUBLE_DOLLAR))
        /\ (IsInlineSpan(text) => TagRelocated(InlineContent(text), DOLLAR))

\* C8: a display span whose content spans several lines is recognised and
\* rendered like a one-line span: a line "$$", a line with the trimmed
\* content, a line "$$".
C8_MultiLineDisplayRendered ==
    fmt_pc = "once" =>
        LET c == DisplayContent(text) IN
        (/\ IsDisplaySpan(text)
         /\ Contains(Trimmed(c), <<NL>>)
         /\ ~Contains(c, TAG_OPEN)
         /\ ~Contains(c, TripleNewline))
            => processed_text =
                   DOUBLE_DOLLAR \o <<NL>> \o Trimmed(c) \o <<NL>>
                       \o DOUBLE_DOLLAR

\* C8 on a display span whose content lies on one line, which the code does
\* render so.
C8_OneLineDisplayRendered ==
    fmt_pc = "once" =>
        LET c == DisplayContent(text) IN
        (/\ IsDisplaySpan(text)
         /\ ~Contains(c, <<NL>>)
         /\ ~Contains(c, TAG_OPEN))
            => processed_text =
                   DOUBLE_DOLLAR \o <<NL>> \o Trimmed(c) \o <<NL>>
                       \o DOUBLE_DOLLAR

\* C9: the text format_math_expressions returns holds no run of three or
\* more line breaks and no leading or trailing whitespace, also when the
\* display rewrite inserts line breaks or repeats an indentation that holds
\* line breaks.
C9_NoTripleNewlineNoOuterSpace ==
    Formatted =>
        /\ ~Contains(processed_text, TripleNewline)
        /\ processed_text = Trimmed(processed_text)

\* C9's case: a text without three line breaks in a row whose display
\* rewrite, repeating an indentation of two line breaks, makes such a run.
C9_Witness ==
    /\ fmt_pc = "once"
    /\ ~Contains(text, TripleNewline)
    /\ HasPrefix(text, <<NL, NL>>)
    /\ Contains(SubDisplay(text, 1), TripleNewline)
    /\ HasPrefix(processed_text, DOUBLE_DOLLAR)

\* C10 as stated: a text without "$" is returned unmodified.
C10_NoDollarUnmodified ==
    Formatted => (NoDollar(text) => processed_text = text)

\* C10 as amended: of a text without "$" only whitespace is changed: it is
\* returned with its runs of three or more line breaks cut to two and its
\* leading and trailing whitespace removed, so unmodified when it has neither.
C10_NoDollarOnlyWhitespaceChanged ==
    Formatted =>
        (NoDollar(text) =>
            /\ processed_text = Trimmed(Squeezed(text))
            /\ (~Contains(text, TripleNewline) /\ text = Trimmed(text)
                   => processed_text = text))

\* C10's case: a text without "$" formatted, which lost a line break of a
\* run of three and nothing else.
C10_Witness ==
    /\ fmt_pc = "once"
    /\ NoDollar(text)
    /\ text = Trimmed(text)
    /\ Contains(text, TripleNewline)
    /\ Len(processed_text) = Len(text) - 1

---------------------------------------------------------------------------
(* What the converter's claims are stated with.                            *)

Converted == conv_pc = "converted"

\* t is a display span, a text without "$" and a display span, in a row
IsTwoDisplaySpans(t) ==
    \E i \in 4..Len(t) : \E j \in (i + 1)..(Len(t) - 3) :
        /\ IsDisplaySpan(SubSeq(t, 1, i))
        /\ NoDollar(SubSeq(t, i + 1, j - 1))
        /\ IsDisplaySpan(SubSeq(t, j, Len(t)))

\* the end of the first and the start of the second span of such a text
TwoDisplaySpansAt(t) ==
    CHOOSE ij \in (4..Len(t)) \X (5..Len(t)) :
        /\ ij[1] < ij[2]
        /\ IsDisplaySpan(SubSeq(t, 1, ij[1]))
        /\ NoDollar(SubSeq(t, ij[1] + 1, ij[2] - 1))
        /\ IsDisplaySpan(SubSeq(t, ij[2], Len(t)))

\* t is a display span, a text without "$" and an inline span, in a row
IsDisplayThenInline(t) ==
    \E i \in 4..Len(t) : \E j \in (i + 1)..(Len(t) - 1) :
        /\ IsDisplaySpan(SubSeq(t, 1, i))
        /\ NoDollar(SubSeq(t, i + 1, j - 1))
        /\ IsInlineSpan(SubSeq(t, j, Len(t)))

DisplayThenInlineAt(t) ==
    CHOOSE ij \in (4..Len(t)) \X (5..Len(t)) :
        /\ ij[1] < ij[2]
        /\ IsDisplaySpan(SubSeq(t, 1, ij[1]))
        /\ NoDollar(SubSeq(t, ij[1] + 1, ij[2] - 1))
        /\ IsInlineSpan(SubSeq(t, ij[2], Len(t)))

\* "\[C\]" and "\( C \)"
Bracketed(c) == <<"\\", "[">> \o c \o <<"\\", "]">>
Parenthesised(c) == <<"\\", "(", " ">> \o c \o <<" ", "\\", ")">>

\* s with every "\[" and every "\]" put back to "$$"
Unbracketed(s) ==
    LET F[i \in 0..Len(s)] ==
            IF i = 0 THEN <<>>
            ELSE IF i >= 2 /\ s[i - 1] = "\\" /\ s[i] \in {"[", "]"}
            THEN SubSeq(F[i - 1], 1, Len(F[i - 1]) - 1) \o DOUBLE_DOLLAR
            ELSE Append(F[i - 1], s[i])
    IN F[Len(s)]

\* the positions of s where "\[" and where "\]" stand
OpenBrackets(s) == { i \in 1..(Len(s) - 1) : s[i] = "\\" /\ s[i + 1] = "[" }
CloseBrackets(s) == { i \in 1..(Len(s) - 1) : s[i] = "\\" /\ s[i + 1] = "]" }

\* "\[a\] and \( b \)"
Result_DisplayAndInline ==
    Bracketed(<<"a">>) \o <<" ", "a", "n", "d", " ">> \o Parenthesised(<<"b">>)

---------------------------------------------------------------------------
(* Claims about convert_latex_delimiters, checked under SpecConvert.       *)

\* C11: the display rule is applied before the inline rule: a display span
\* "$$C$$" becomes "\[C\]", its "$$" pairs never becoming inline delimiters,
\* and every remaining inline span "$C$" becomes "\( C \)" with one space on
\* each side of C; "$$a$$ and $b$" becomes "\[a\] and \( b \)".
C11_DisplayThenEveryInline ==
    Converted =>
        /\ (IsDisplaySpan(latex_text)
               => latex_result = Bracketed(DisplayContent(latex_text)))
        /\ (IsInlineSpan(latex_text)
               => latex_result = Parenthesised(InlineContent(latex_text)))
        /\ (IsDisplayThenInline(latex_text) =>
               LET ij == DisplayThenInlineAt(latex_text) IN
               latex_result =
                   Bracketed(SubSeq(latex_text, 3, ij[1] - 2))
                   \o SubSeq(latex_text, ij[1] + 1, ij[2] - 1)
                   \o Parenthesised(SubSeq(latex_text, ij[2] + 1,
                                           Len(latex_text) - 1)))
        /\ (latex_text = Text_DisplayAndInline
               => latex_result = Result_DisplayAndInline)

\* C11 on the inline spans the code does convert, those whose content holds
\* no line break.
C11_DisplayThenOneLineInline ==
    Converted =>
        /\ (IsDisplaySpan(latex_text)
               => latex_result = Bracketed(DisplayContent(latex_text)))
        /\ (IsInlineSpan(latex_text)
                /\ ~Contains(InlineContent(latex_text), <<NL>>)
               => latex_result = Parenthesised(InlineContent(latex_text)))
        /\ (IsDisplayThenInline(latex_text) =>
               LET ij == DisplayThenInlineAt(latex_text) IN
               ~Contains(SubSeq(latex_text, ij[2], Len(latex_text)), <<NL>>) =>
               latex_result =
                   Bracketed(SubSeq(latex_text, 3, ij[1] - 2))
                   \o SubSeq(latex_text, ij[1] + 1, ij[2] - 1)
                   \o Parenthesised(SubSeq(latex_text, ij[2] + 1,
                                           Len(latex_text) - 1)))
        /\ (latex_text = Text_DisplayAndInline
               => latex_result = Result_DisplayAndInline)

\* C12 as stated: in a text with several "$$" pairs the one display match
\* runs from the first "$$" to the last "$$" of the text.
C12_GreedyEndToEnd ==
    Converted =>
        (IsTwoDisplaySpans(latex_text) =>
            display_converted =
                Bracketed(SubSeq(latex_text, 3, Len(latex_text) - 2)))

\* C12 as amended: the display rule matches lazily and across line breaks,
\* not per line: each display match runs from a "$$" to the next "$$" after
\* it, so in a text with several "$$" pairs every pair is a match of its own,
\* no match holds a "$$" and no pair is left unconverted.
C12_LazyPairByPair ==
    Converted =>
        /\ (IsDisplaySpan(latex_text)
               => display_converted = Bracketed(DisplayContent(latex_text)))
        /\ (IsTwoDisplaySpans(latex_text) =>
               LET ij == TwoDisplaySpansAt(latex_text) IN
               display_converted =
                   Bracketed(SubSeq(latex_text, 3, ij[1] - 2))
                   \o SubSeq(latex_text, ij[1] + 1, ij[2] - 1)
                   \o Bracketed(SubSeq(latex_text, ij[2] + 2,
                                       Len(latex_text) - 2)))
        /\ Unbracketed(display_converted) = latex_text
        /\ Cardinality(OpenBrackets(display_converted))
               = Cardinality(CloseBrackets(display_converted))
        /\ \A i \in OpenBrackets(display_converted) :
              \E j \in CloseBrackets(display_converted) :
                  /\ j > i
                  /\ ~Contains(SubSeq(display_converted, i + 2, j - 1),
                               DOUBLE_DOLLAR)
        /\ \A p, q \in 1..(Len(display_converted) - 1) :
              (/\ SubSeq(display_converted, p, p + 1) = DOUBLE_DOLLAR
               /\ SubSeq(display_converted, q, q + 1) = DOUBLE_DOLLAR)
                  => q - p \in {-1, 0, 1}

\* C12's case: a text of two "$$" pairs, the first holding a line break,
\* converted into two bracket pairs.
C12_Witness ==
    /\ Converted
    /\ IsTwoDisplaySpans(latex_text)
    /\ Contains(SubSeq(latex_text, 1, TwoDisplaySpansAt(latex_text)[1]), <<NL>>)
    /\ Cardinality(OpenBrackets(display_converted)) = 2

---------------------------------------------------------------------------
(* What the claims about the callback and the automation are stated with.  *)

\* the activations between the assignment of the flag and the end of their
\* finally block
Holding == { a \in Activations : pc[a] \in HoldingPcs }

\* the k-th keyboard step of a run in which no step fails
StepKindAt(k) ==
    CASE (k - 1) % 4 = 0 -> "paste_question"
      [] (k - 1) % 4 = 1 -> "tab"
      [] (k - 1) % 4 = 2 -> "paste_answer"
      [] (k - 1) % 4 = 3 -> "save"

\* the lists of records the parser gives for a copied card text, as the user
\* copied it or as the formatter thread rewrote it
ParserOutputs ==
    { parse_flashcards_from_text(t).parsed_cards : t \in CardClipboards }
    \cup { parse_flashcards_from_text(format_math_expressions(t)).parsed_cards :
              t \in CardClipboards }

\* activation a has left the parser behind
PastParsing(a) == pc[a] \in (HoldingPcs \ {"read_clipboard"}) \cup {"done"}

---------------------------------------------------------------------------
(* Claims about automate_anki_card_entry, checked under SpecAutomation.    *)

\* C13: transcoding never mutates a parsed record: from the call of
\* automate_anki_card_entry on, through every path (all cards done, aborted
\* at some card), the list holds the records the parser produced, with their
\* question and answer strings, in the same number and order.
C13_RecordsNeverMutated ==
    /\ [](\A a \in Activations :
            PastParsing(a) /\ exit_path[a] \in {"none", "finished", "aborted"}
                => cards_to_process[a] \in ParserOutputs \ {<<>>})
    /\ [][\A a \in Activations :
            PastParsing(a) => cards_to_process'[a] = cards_to_process[a]]_vars

\* C13's case: two records were entered to the end, a pasted question being
\* a new text while its record still holds the question with its "$".
C13_Witness ==
    /\ pc[FirstActivation] = "done"
    /\ exit_path[FirstActivation] = "finished"
    /\ Len(cards_to_process[FirstActivation]) = 2
    /\ \E k \in 1..Len(steps[FirstActivation]) :
          LET e == steps[FirstActivation][k] IN
          /\ e.step = "paste_question"
          /\ Contains(cards_to_process[FirstActivation][e.card + 1].question,
                      DOLLAR)
          /\ e.text # cards_to_process[FirstActivation][e.card + 1].question

\* C16: the records are handled in list order and each record's steps are
\* paste question, tab, paste answer, save, in this order; a record's steps
\* begin only after the record before it was saved; and a failed step is the
\* last step: the function has stopped and no step of a later record is
\* performed.
C16_StepsInOrderAbortAtOnce ==
    \A a \in Activations :
        /\ \A k \in 1..Len(steps[a]) :
              LET e == steps[a][k] IN
              /\ e.card = (k - 1) \div 4
              /\ e.card < Len(cards_to_process[a])
              /\ (e.step # "failed" => e.step = StepKindAt(k))
              /\ (e.step = "failed"
                     => k = Len(steps[a]) /\ pc[a] \in {"finally", "done"})
        /\ (exit_path[a] = "finished"
               => Len(steps[a]) = 4 * Len(cards_to_process[a]))
        /\ (pc[a] \in AutomationPcs => Len(steps[a]) >= 4 * card_index[a])

\* C16's case: the first record was saved, a step of the second failed and
\* the callback ended.
C16_Witness ==
    LET log == steps[FirstActivation] IN
    /\ pc[FirstActivation] = "done"
    /\ exit_path[FirstActivation] = "aborted"
    /\ Len(log) >= 6
    /\ log[4].step = "save"
    /\ log[Len(log)].step = "failed"
    /\ log[Len(log)].card = 1

\* C17: with the formatter thread running beside the automation, the text on
\* the clipboard when robust_paste presses the paste key is the transcoded
\* field robust_paste copied there, for every field of every record.
C17_PastedTextIsCopiedText ==
    \A a \in Activations :
        \A k \in 1..Len(steps[a]) :
            LET e == steps[a][k]
                card_data == cards_to_process[a][e.card + 1]
            IN /\ (e.step = "paste_question"
                     => e.text = convert_latex_delimiters(card_data.question))
               /\ (e.step = "paste_answer"
                     => e.text = convert_latex_delimiters(card_data.answer))

---------------------------------------------------------------------------
(* Claims about on_activate_hotkey_callback, checked under SpecHotkey and  *)
(* SpecHotkeyFair.                                                         *)

\* C14: the flag prevents re-entrant automation: at most one activation is
\* between the assignment of the flag and its finally block, however the
\* activations interleave; and an activation that found the flag set has
\* read no clipboard, parsed nothing and automated nothing.
C14_AtMostOneActivationHolds ==
    /\ Cardinality(Holding) <= 1
    /\ \A a \in Activations :
          pc[a] = "rejected"
              => /\ cards_to_process[a] = <<>>
                 /\ steps[a] = <<>>
                 /\ exit_path[a] = "none"

\* C15: every activation that set the flag reaches the end of its finally
\* block on every exit path (activations are delivered a bounded number of
\* times, so from some time on none is left inside), and that block sets the
\* flag to False: whenever no activation is inside, the flag is False and the
\* next press is served; an activation that is rejected leaves the flag True
\* and takes no further step.
C15_FlagResetOnEveryExit ==
    /\ <>[](Holding = {})
    /\ [](Holding = {} => processing_cards_flag = FALSE)
    /\ [][\A a \in Activations :
            /\ (pc[a] = "finally" /\ pc'[a] = "done"
                   => processing_cards_flag' = FALSE)
            /\ (pc[a] = "check" /\ pc'[a] = "rejected"
                   => processing_cards_flag /\ processing_cards_flag')
            /\ (pc[a] = "rejected" => pc'[a] = "rejected")]_vars

\* C15's case: one activation was rejected while another held the flag, and
\* that one left through an aborted automation and reset the flag.
C15_Witness ==
    /\ processing_cards_flag = FALSE
    /\ \E a, b \in Activations :
          /\ pc[a] = "done"
          /\ exit_path[a] = "aborted"
          /\ pc[b] = "rejected"

---------------------------------------------------------------------------
(* Claims about clipboard_formatter_loop, checked under SpecClipboard.     *)

\* C18: the loop never reformats its own output: the text it writes becomes
\* the last seen value, so it writes only a text another party put on the
\* clipboard, also when formatting its output again would change it; and it
\* writes only when the observed text is non-blank, holds a math pattern and
\* differs from its formatted form, which is what it writes.
C18_LoopNeverRewritesItsOutput ==
    /\ [](fl_pc = "write" =>
            /\ Trimmed(current_clipboard_content) # <<>>
            /\ Occurrences(current_clipboard_content, DOLLAR) >= 2
            /\ format_math_expressions(current_clipboard_content)
                   # current_clipboard_content)
    /\ [](clip_writer = "formatter" => recent_value = clipboard)
    /\ [][fl_pc = "write" /\ fl_pc' = "poll" =>
            /\ clip_writer # "formatter"
            /\ clipboard' = format_math_expressions(current_clipboard_content)
            /\ recent_value' = clipboard']_vars

\* C18's case: the loop wrote a text that formatting would change again,
\* polled it and did not write.
C18_Witness ==
    /\ clip_writer = "formatter"
    /\ fl_pc = "poll"
    /\ current_clipboard_content = clipboard
    /\ recent_value = clipboard
    /\ format_math_expressions(clipboard) # clipboard

---------------------------------------------------------------------------
(* Claims about find_longest_common_prefix, checked under SpecPrefix.      *)

\* p is a prefix of every string of the list
IsCommonPrefix(p, strings) == \A k \in 1..Len(strings) : HasPrefix(strings[k], p)

\* the longest text that is a prefix of every string of a non-empty list
LongestCommonPrefix(strings) ==
    LET n == CHOOSE n \in 0..Len(strings[1]) :
                 /\ IsCommonPrefix(SubSeq(strings[1], 1, n), strings)
                 /\ \A h \in (n + 1)..Len(strings[1]) :
                        ~IsCommonPrefix(SubSeq(strings[1], 1, h), strings)
    IN SubSeq(strings[1], 1, n)

\* C19: for every list of strings the call returns, without raising, the
\* longest string that is a prefix of every element, the empty string for an
\* empty list, whatever the number of strings and their lengths; so what the
\* CLI keeps after a step with several matches is a prefix of every match.
C19_ReturnsLongestCommonPrefix ==
    prefix_pc = "returned" =>
        /\ ~prefix_result.raised
        /\ prefix_result.value =
               (IF strs = <<>> THEN <<>> ELSE LongestCommonPrefix(strs))
        /\ IsCommonPrefix(prefix_result.value, strs)

\* C19 holds of exactly these lists: the empty one, those whose common
\* prefix is shorter than the list and than the first string, and those
\* whose common prefix is the whole first string and at least as long as the
\* list.
C19_CorrectExactlyWhen ==
    prefix_pc = "returned" /\ strs # <<>> =>
        LET n == Len(strs)
            m == Len(strs[1])
            l == Len(LongestCommonPrefix(strs))
        IN (prefix_result = Returned(LongestCommonPrefix(strs)))
               <=> ((l < n /\ l < m) \/ (l >= n /\ l = m))

===========================================================================
